---- MODULE Spec2Model ----
(***************************************************************************)
(* RecordProvider (contexts/record-context): the workout completion        *)
(* tracker.  The React state of the provider, the closure the last render  *)
(* captured, the realtime subscriptions of the client, and the server      *)
(* calls in flight.                                                        *)
(***************************************************************************)
EXTENDS Integers, Sequences, FiniteSets, TLC

\* ------------------------------------------------------------------ bounds
Users == {"u1", "u2"}
Dates == {"d1", "d2"}
DateSeq == <<"d1", "d2">>
EventTypes == {"INSERT", "UPDATE", "DELETE"}
MaxCalls == 2
MaxReads == 1
MaxLen == 2
MaxSubs == 2

NoUser == "none"
NoClient == "null"
NoError == "null"
NoRecord == [user_id |-> "none", date |-> "none", completed |-> FALSE]
NoRun == [date |-> "none", pre |-> <<>>, n |-> 0, inflight |-> 0]

VARIABLES
  workoutDays,  \* useState<WorkoutDay[]>: the latest state of the collection
  isLoading,    \* useState(true)
  error,        \* useState<string | null>(null)
  supabase,     \* useState<any>(null): "null", "real" or "mock"
  user,         \* useAuth().user, NoUser when signed out
  rendered,     \* the workoutDays value the closures of the last render hold
  phase,        \* "constructed", "mounted" or "unmounted"
  effDeps,      \* the [user, supabase] the load effect last ran with
  pending,      \* a render is committed and its effects have not run yet
  cleanup,      \* the channel the effect's cleanup will remove, 0 when none
  subs,         \* the channels the client was asked to subscribe, by handle
  reads,        \* getUserWorkouts calls in flight
  writes,       \* toggleWorkoutDayAction calls in flight, oldest first
  run,          \* history: the toggles on one date since the collection was
                \* last changed by anything else, and the date's records before
  last          \* history: the step taken last

vars == <<workoutDays, isLoading, error, supabase, user, rendered, phase,
          effDeps, pending, cleanup, subs, reads, writes, run, last>>

Step(op, date, idx, res) == [op |-> op, date |-> date, idx |-> idx, res |-> res]

\* ------------------------------------------------------- pure functions
\* Array.prototype.find(day => day.date === date): the first match, or
\* undefined (NoRecord)
find(days, date) ==
  IF \E i \in 1..Len(days) : days[i].date = date
  THEN days[CHOOSE i \in 1..Len(days) :
              /\ days[i].date = date
              /\ \A j \in 1..(i - 1) : days[j].date # date]
  ELSE NoRecord

RecordsOf(days, date) == SelectSeq(days, LAMBDA day : day.date = date)

\* existingWorkout ? !existingWorkout.completed : true
newCompletedOf(existingWorkout) ==
  IF existingWorkout # NoRecord THEN ~existingWorkout.completed ELSE TRUE

OptimisticUpdateAll(prev, existingWorkout, uid, date, newCompleted) ==
  IF existingWorkout # NoRecord
  THEN [i \in 1..Len(prev) |-> [prev[i] EXCEPT !.completed = newCompleted]]
  ELSE Append(prev, [user_id |-> uid, date |-> date, completed |-> newCompleted])

\* the updater of the optimistic setWorkoutDays
OptimisticUpdate(prev, existingWorkout, uid, date, newCompleted) ==
  IF existingWorkout # NoRecord
  THEN [i \in 1..Len(prev) |->
          IF prev[i].date = date
          THEN [prev[i] EXCEPT !.completed = newCompleted]
          ELSE prev[i]]
  ELSE Append(prev, [user_id |-> uid, date |-> date, completed |-> newCompleted])

RevertNothing(prev, existingWorkout, date) == prev

RevertRemoves(prev, existingWorkout, date) ==
  SelectSeq(prev, LAMBDA day : day.date # date)

\* the updater of the reverting setWorkoutDays (both the !result.success
\* branch and the catch branch)
Revert(prev, existingWorkout, date) ==
  IF existingWorkout # NoRecord
  THEN [i \in 1..Len(prev) |->
          IF prev[i].date = date
          THEN [prev[i] EXCEPT !.completed = existingWorkout.completed]
          ELSE prev[i]]
  ELSE SelectSeq(prev, LAMBDA day : day.date # date)

isWorkoutCompletedAnyRecord(days, date) == find(days, date) # NoRecord

\* workout?.completed || false
isWorkoutCompleted(days, date) ==
  LET workout == find(days, date)
  IN  IF workout # NoRecord THEN workout.completed ELSE FALSE

\* every record of the date in days carries the value c, and there is one
Shows(days, date, c) ==
  LET recs == RecordsOf(days, date)
  IN  recs # <<>> /\ \A k \in 1..Len(recs) : recs[k].completed = c

RemoveAt(s, i) == [k \in 1..(Len(s) - 1) |-> IF k < i THEN s[k] ELSE s[k + 1]]

\* ------------------------------------------------- external collaborators
\* getUserWorkouts(userId): the rows of that user, one per date at most
RECURSIVE RowsFrom(_, _, _)
RowsFrom(uid, f, ds) ==
  IF ds = <<>> THEN <<>>
  ELSE LET d == Head(ds)
           rest == RowsFrom(uid, f, Tail(ds))
       IN  IF f[d] = "absent" THEN rest
           ELSE <<[user_id |-> uid, date |-> d, completed |-> f[d] = "yes"]>> \o rest

Rows(uid, f) == RowsFrom(uid, f, DateSeq)

ReadResults(uid) == {Rows(uid, f) : f \in [Dates -> {"absent", "yes", "no"}]}

\* getUserWorkouts rejects
Thrown == <<[user_id |-> "none", date |-> "throw", completed |-> FALSE]>>

ReadSettles(uid) == ReadResults(uid) \cup {Thrown}

\* toggleWorkoutDayAction: {success: true}, {success: false} or a throw
WriteOutcomes == {"ok", "fail", "throw"}

\* the mock client of createMockRecordClient delivers no event
Delivers(client) == client = "real"

\* ---------------------------------------------------------- subscriptions
\* supabase.removeChannel(channel)
RemoveChannel(ss, handle) ==
  IF handle = 0 THEN ss ELSE [ss EXCEPT ![handle].releases = @ + 1]

CleanupForgets(ss, handle) == ss

\* the function the load effect returned: () => { supabase.removeChannel(channel) }
\* or () => {}
CleanupEffect(ss, handle) == RemoveChannel(ss, handle)

\* supabase.channel(..).on(..).subscribe(): a new channel, unless it throws
Subscribe(ss, uid, client, subOk) ==
  IF subOk
  THEN Append(ss, [user |-> uid, client |-> client, releases |-> 0])
  ELSE ss

Active(ss) == {h \in 1..Len(ss) : ss[h].releases = 0}

\* ------------------------------------------------------------------- init
Init ==
  /\ workoutDays = <<>>
  /\ isLoading = TRUE
  /\ error = NoError
  /\ supabase = NoClient
  /\ user \in Users \cup {NoUser}
  /\ rendered = <<>>
  /\ phase = "constructed"
  /\ effDeps = <<NoUser, NoClient>>
  /\ pending = FALSE
  /\ cleanup = 0
  /\ subs = <<>>
  /\ reads = <<>>
  /\ writes = <<>>
  /\ run = NoRun
  /\ last = Step("init", "none", 0, FALSE)

\* ---------------------------------------------------------------- effects
\* The load effect, useEffect(.., [user, supabase]), run for the values u, sb.
\* if (!user || !supabase) { setIsLoading(false); return }
EffectLoading(loading, u, sb) ==
  IF u = NoUser \/ sb = NoClient THEN FALSE ELSE loading

EffectReadsAlways(rds, u, sb) == Append(rds, [kind |-> "load", user |-> u])

\* loadWorkouts(): one getUserWorkouts(user.id) goes out
EffectReads(rds, u, sb) ==
  IF u = NoUser \/ sb = NoClient
  THEN rds
  ELSE Append(rds, [kind |-> "load", user |-> u])

\* the cleanup of the previous run, then the subscription of this one
EffectSubs(ss, handle, u, sb, subOk) ==
  IF u = NoUser \/ sb = NoClient
  THEN CleanupEffect(ss, handle)
  ELSE Subscribe(CleanupEffect(ss, handle), u, sb, subOk)

\* what this run returns as its cleanup: the channel to remove, 0 for none
EffectCleanup(ss, u, sb, subOk) ==
  IF u = NoUser \/ sb = NoClient \/ ~subOk THEN 0 ELSE Len(ss)

LoadEffect(u, sb, subOk) ==
  /\ effDeps' = <<u, sb>>
  /\ isLoading' = EffectLoading(isLoading, u, sb)
  /\ reads' = EffectReads(reads, u, sb)
  /\ subs' = EffectSubs(subs, cleanup, u, sb, subOk)
  /\ cleanup' = EffectCleanup(subs', u, sb, subOk)

\* A commit of a render with user u: the closures see the latest state.  The
\* load effect is scheduled when one of its dependencies [user, supabase] is
\* not the object it last ran with: another user or client, or (fresh) a new
\* user object with the same id.  It runs in a later task (RunEffects).
Commit(u, fresh) ==
  /\ rendered' = workoutDays
  /\ pending' = (fresh \/ <<u, supabase>> # effDeps)
  /\ (pending' /\ u # NoUser /\ supabase # NoClient) => Len(subs) < MaxSubs

\* The effects of the last commit run: the cleanup of the previous run of the
\* load effect, then the load effect with the user and the client of that
\* render.
RunEffects(subOk) ==
  /\ phase = "mounted"
  /\ pending
  /\ Len(EffectReads(reads, user, supabase)) <= MaxReads
  /\ Len(EffectSubs(subs, cleanup, user, supabase, subOk)) <= MaxSubs
  /\ LoadEffect(user, supabase, subOk)
  /\ pending' = FALSE
  /\ last' = Step("effect", "none", 0, FALSE)
  /\ UNCHANGED <<workoutDays, error, supabase, user, rendered, phase, writes, run>>

\* The first commit: the client-init effect, then the load effect with the
\* supabase of the first render (null).
Mount(initOk) ==
  /\ phase = "constructed"
  /\ phase' = "mounted"
  /\ IF initOk
     THEN /\ supabase' = "real"
          /\ error' = error
     ELSE /\ supabase' = "mock"
          /\ error' = "init"
  /\ isLoading' = FALSE
  /\ effDeps' = <<user, NoClient>>
  /\ pending' = FALSE
  /\ last' = Step("mount", "none", 0, initOk)
  /\ UNCHANGED <<workoutDays, user, rendered, cleanup, subs, reads, writes, run>>

\* A re-render of pending state (setSupabase, setWorkoutDays); the effects of
\* the commit before have run by then
Rerender ==
  /\ phase = "mounted"
  /\ ~pending
  /\ rendered # workoutDays \/ <<user, supabase>> # effDeps
  /\ Commit(user, FALSE)
  /\ last' = Step("render", "none", 0, FALSE)
  /\ UNCHANGED <<workoutDays, isLoading, error, supabase, user, phase, effDeps,
                 cleanup, subs, reads, writes, run>>

\* useAuth() yields another user object (sign-in, sign-out, switch, or a new
\* object for the user signed in) and the provider re-renders
AuthChange(u) ==
  /\ phase = "mounted"
  /\ ~pending
  /\ u # user \/ u # NoUser
  /\ user' = u
  /\ Commit(u, u # NoUser)
  /\ run' = NoRun
  /\ last' = Step("auth", "none", 0, FALSE)
  /\ UNCHANGED <<workoutDays, isLoading, error, supabase, phase, effDeps,
                 cleanup, subs, reads, writes>>

\* The provider is discontinued; the effects of the last commit have run by
\* then.  The cleanup of the last run of the load effect removes its channel.
\* Nothing cancels the calls in flight: they settle later, and the setters
\* they call then change nothing.
Unmount ==
  /\ phase = "mounted"
  /\ ~pending
  /\ phase' = "unmounted"
  /\ subs' = CleanupEffect(subs, cleanup)
  /\ cleanup' = 0
  /\ run' = NoRun
  /\ last' = Step("unmount", "none", 0, FALSE)
  /\ UNCHANGED <<workoutDays, isLoading, error, supabase, user, rendered, effDeps,
                 pending, reads, writes>>

\* ----------------------------------------------------------------- toggle
toggleWorkoutDay(date) ==
  /\ phase = "mounted"
  /\ IF user = NoUser
     THEN /\ last' = Step("toggle", date, 0, FALSE)
          /\ UNCHANGED <<workoutDays, writes, run>>
     ELSE LET existingWorkout == find(rendered, date)
              newCompleted == newCompletedOf(existingWorkout)
          IN  /\ Len(writes) < MaxCalls
              /\ existingWorkout = NoRecord => Len(workoutDays) < MaxLen
              /\ workoutDays' = OptimisticUpdate(workoutDays, existingWorkout,
                                                 user, date, newCompleted)
              /\ writes' = Append(writes,
                    [user |-> user, date |-> date, completed |-> newCompleted,
                     existing |-> existingWorkout])
              /\ run' = IF run.n = 1 /\ run.date = date
                        THEN [run EXCEPT !.n = 2, !.inflight = @ + 1]
                        ELSE [date |-> date,
                              pre |-> RecordsOf(workoutDays, date),
                              n |-> 1, inflight |-> 1]
              /\ last' = Step("toggle", date, 0, TRUE)
  /\ UNCHANGED <<isLoading, error, supabase, user, rendered, phase, effDeps,
                 pending, cleanup, subs, reads>>

\* history: reverting call i takes away the value that a later call on the same
\* date, still in flight, had put into the collection
Overwrites(calls, i, days, reverted) ==
  \E j \in (i + 1)..Len(calls) :
     /\ calls[j].date = calls[i].date
     /\ Shows(days, calls[i].date, calls[j].completed)
     /\ ~Shows(reverted, calls[i].date, calls[j].completed)

\* the awaited toggleWorkoutDayAction of the i-th call in flight settles; after
\* the unmount the reverting setWorkoutDays changes nothing
WriteDone(i, outcome) ==
  /\ i \in 1..Len(writes)
  /\ writes' = RemoveAt(writes, i)
  /\ IF phase # "mounted"
     THEN /\ workoutDays' = workoutDays
          /\ run' = run
          /\ last' = Step("dropped", "none", 0, outcome = "ok")
     ELSE IF outcome # "ok"
     THEN /\ workoutDays' = Revert(workoutDays, writes[i].existing, writes[i].date)
          /\ run' = NoRun
          /\ last' = Step("rollback", writes[i].date, i,
                          Overwrites(writes, i, workoutDays, workoutDays'))
     ELSE /\ workoutDays' = workoutDays
          /\ run' = IF i > Len(writes) - run.inflight
                    THEN [run EXCEPT !.inflight = @ - 1]
                    ELSE run
          /\ last' = Step("written", "none", 0, TRUE)
  /\ UNCHANGED <<isLoading, error, supabase, user, rendered, phase, effDeps,
                 pending, cleanup, subs, reads>>

\* -------------------------------------------------------------- reads
\* the postgres_changes callback: if (user?.id) getUserWorkouts(user.id)
OnChange(rds, uid) ==
  IF uid # NoUser THEN Append(rds, [kind |-> "refresh", user |-> uid]) ELSE rds

\* a postgres_changes event reaches the callback of channel h
Notify(h, event) ==
  /\ h \in Active(subs)
  /\ Delivers(subs[h].client)
  /\ event \in EventTypes
  /\ Len(reads) < MaxReads
  /\ reads' = OnChange(reads, subs[h].user)
  /\ last' = Step("notify", event, 0, TRUE)
  /\ UNCHANGED <<workoutDays, isLoading, error, supabase, user, rendered, phase,
                 effDeps, pending, cleanup, subs, writes, run>>

LoadedDaysCleared(days, result) == IF result # Thrown THEN result ELSE <<>>

\* loadWorkouts: try { setWorkoutDays(workouts) } catch { setError(..) }
LoadedDays(days, result) == IF result # Thrown THEN result ELSE days

LoadedError(err, result) == IF result # Thrown THEN err ELSE "load"

\* the getUserWorkouts call of loadWorkouts settles; after the unmount
\* setWorkoutDays, setError and setIsLoading change nothing
LoadDone(i, result) ==
  /\ i \in 1..Len(reads)
  /\ reads[i].kind = "load"
  /\ result \in ReadSettles(reads[i].user)
  /\ reads' = RemoveAt(reads, i)
  /\ IF phase = "mounted"
     THEN /\ workoutDays' = LoadedDays(workoutDays, result)
          /\ error' = LoadedError(error, result)
          /\ isLoading' = FALSE
          /\ run' = IF result # Thrown THEN NoRun ELSE run
          /\ last' = Step("loaded", "none", 0, result # Thrown)
     ELSE /\ UNCHANGED <<workoutDays, error, isLoading, run>>
          /\ last' = Step("dropped", "none", 0, result # Thrown)
  /\ UNCHANGED <<supabase, user, rendered, phase, effDeps, pending, cleanup,
                 subs, writes>>

RefreshedDaysMerged(days, result) == IF result # Thrown THEN days \o result ELSE days

\* getUserWorkouts(user.id).then(workouts => setWorkoutDays(workouts))
RefreshedDays(days, result) == IF result # Thrown THEN result ELSE days

\* the getUserWorkouts call of the subscription callback settles; a rejection
\* has no handler; after the unmount setWorkoutDays changes nothing
RefreshDone(i, result) ==
  /\ i \in 1..Len(reads)
  /\ reads[i].kind = "refresh"
  /\ result \in ReadSettles(reads[i].user)
  /\ reads' = RemoveAt(reads, i)
  /\ IF phase = "mounted"
     THEN /\ workoutDays' = RefreshedDays(workoutDays, result)
          /\ run' = IF result # Thrown THEN NoRun ELSE run
     ELSE UNCHANGED <<workoutDays, run>>
  /\ last' = Step(IF result = Thrown THEN "unhandled"
                  ELSE IF phase = "mounted" THEN "refreshed" ELSE "dropped",
                  "none", 0, result # Thrown)
  /\ UNCHANGED <<isLoading, error, supabase, user, rendered, phase, effDeps,
                 pending, cleanup, subs, writes>>

\* a consumer calls isWorkoutCompleted(date) of the last render: a lookup
Query(date) ==
  /\ phase = "mounted"
  /\ isWorkoutCompleted(rendered, date) \in BOOLEAN
  /\ UNCHANGED vars

Next ==
  \/ \E initOk \in BOOLEAN : Mount(initOk)
  \/ Rerender
  \/ \E u \in Users \cup {NoUser} : AuthChange(u)
  \/ \E subOk \in BOOLEAN : RunEffects(subOk)
  \/ Unmount
  \/ \E date \in Dates : toggleWorkoutDay(date)
  \/ \E i \in 1..Len(writes), outcome \in WriteOutcomes : WriteDone(i, outcome)
  \/ \E h \in 1..Len(subs), event \in EventTypes : Notify(h, event)
  \/ \E i \in 1..Len(reads) :
        \E result \in ReadSettles(reads[i].user) : LoadDone(i, result)
  \/ \E i \in 1..Len(reads) :
        \E result \in ReadSettles(reads[i].user) : RefreshDone(i, result)
  \/ \E date \in Dates : Query(date)

Spec == Init /\ [][Next]_vars

\* ------------------------------------------------------------- scenarios
\* Spec is the whole provider.  The scenarios below take the same actions and
\* narrow who acts and on which rows, so that every interleaving of what is
\* left can be explored.

\* the settlements of a read that carry rows of one date only
OnDate(results, date) ==
  {r \in results : r = Thrown \/ \A k \in 1..Len(r) : r[k].date = date}

\* One user signed in from the start and staying: toggles of one date, their
\* writes, reads, events and renders in every interleaving.
InitSignedIn == Init /\ user = "u1"

NextToggle ==
  \/ \E initOk \in BOOLEAN : Mount(initOk)
  \/ Rerender
  \/ \E subOk \in BOOLEAN : RunEffects(subOk)
  \/ toggleWorkoutDay("d1")
  \/ \E i \in 1..Len(writes), outcome \in WriteOutcomes : WriteDone(i, outcome)
  \/ \E h \in 1..Len(subs), event \in EventTypes : Notify(h, event)
  \/ \E i \in 1..Len(reads) :
        \E result \in OnDate(ReadSettles(reads[i].user), "d1") : LoadDone(i, result)
  \/ \E i \in 1..Len(reads) :
        \E result \in OnDate(ReadSettles(reads[i].user), "d1") : RefreshDone(i, result)
  \/ \E date \in Dates : Query(date)

SpecToggle == InitSignedIn /\ [][NextToggle]_vars

\* Users signing in, out and switching, the provider unmounting, reads and
\* events in between, the rows of one date; toggles only while nobody is
\* signed in.
NextAuth ==
  \/ \E initOk \in BOOLEAN : Mount(initOk)
  \/ Rerender
  \/ \E u \in Users \cup {NoUser} : AuthChange(u)
  \/ \E subOk \in BOOLEAN : RunEffects(subOk)
  \/ Unmount
  \/ \E date \in Dates : user = NoUser /\ toggleWorkoutDay(date)
  \/ \E h \in 1..Len(subs), event \in EventTypes : Notify(h, event)
  \/ \E i \in 1..Len(reads) :
        \E result \in OnDate(ReadSettles(reads[i].user), "d1") : LoadDone(i, result)
  \/ \E i \in 1..Len(reads) :
        \E result \in OnDate(ReadSettles(reads[i].user), "d1") : RefreshDone(i, result)

SpecAuth == Init /\ [][NextAuth]_vars

\* One user signed in from the start and staying: the initial read with rows
\* of any dates, toggles of every date with one call per date in flight, their
\* writes and renders in every interleaving; no event arrives.
NextDates ==
  \/ \E initOk \in BOOLEAN : Mount(initOk)
  \/ Rerender
  \/ \E subOk \in BOOLEAN : RunEffects(subOk)
  \/ \E date \in Dates :
        /\ \A i \in 1..Len(writes) : writes[i].date # date
        /\ toggleWorkoutDay(date)
  \/ \E i \in 1..Len(writes), outcome \in WriteOutcomes : WriteDone(i, outcome)
  \/ \E i \in 1..Len(reads) :
        \E result \in ReadSettles(reads[i].user) : LoadDone(i, result)

SpecDates == InitSignedIn /\ [][NextDates]_vars

TypeOK ==
  /\ Len(workoutDays) <= MaxLen
  /\ Len(writes) <= MaxCalls
  /\ Len(reads) <= MaxReads
  /\ Len(subs) <= MaxSubs
\* -------------------------------------------------------------- properties
Unique(days) ==
  \A i, j \in 1..Len(days) :
     i # j => <<days[i].user_id, days[i].date>> # <<days[j].user_id, days[j].date>>

\* C1: when the write of a toggle fails, the date's records after the rollback
\* are the date's records just before that toggle's optimistic update (here
\* for a toggle with no other change of the collection between its optimistic
\* update and its rollback).
C1_RollbackRestoresPreToggle ==
  [][ ( /\ last'.op = "rollback"
        /\ last'.idx = Len(writes)
        /\ run.n = 1 /\ run.inflight = 1
        /\ run.date = last'.date )
      => RecordsOf(workoutDays', run.date) = run.pre ]_vars

\* C2: a toggle by a signed-in user on a date the collection has no record of
\* leaves exactly one record of that date: completed, and of the current user.
C2_FirstToggleCreatesOneRecord ==
  [][ ( /\ last'.op = "toggle"
        /\ user # NoUser
        /\ RecordsOf(workoutDays, last'.date) = <<>> )
      => RecordsOf(workoutDays', last'.date) =
            <<[user_id |-> user, date |-> last'.date, completed |-> TRUE]>> ]_vars

\* C3: the collection never holds two records with the same user_id and date.
C3_UniquePerUserAndDate == Unique(workoutDays)

\* C4: after two toggles of a date whose writes both succeeded, with nothing
\* else changing the collection, the date's completed value is the one it had
\* before the first toggle.
C4_TwoTogglesRestore ==
  (run.n = 2 /\ run.inflight = 0)
    => isWorkoutCompleted(workoutDays, run.date) = isWorkoutCompleted(run.pre, run.date)

\* C5: isWorkoutCompleted(date) is the completed flag of the record of that
\* date in the collection the render holds (the first one, should there be
\* several), and false when there is none.
C5_IsWorkoutCompletedLooksUp ==
  \A date \in Dates :
     LET recs == RecordsOf(rendered, date)
     IN  isWorkoutCompleted(rendered, date) =
           IF recs = <<>> THEN FALSE ELSE Head(recs).completed

C5_Witness ==
  /\ Len(RecordsOf(rendered, "d1")) = 2
  /\ isWorkoutCompleted(rendered, "d1")
  /\ ~isWorkoutCompleted(rendered, "d2")

\* C6: an event of any type delivered to the subscription issues exactly one
\* read, for the user signed in now; when a read so issued returns, the
\* collection becomes its result and nothing else.
C6_EventRereadsAndReplaces ==
  [][ /\ last'.op = "notify"
         => /\ last'.date \in EventTypes
            /\ user # NoUser
            /\ reads' = Append(reads, [kind |-> "refresh", user |-> user])
            /\ workoutDays' = workoutDays
      /\ last'.op = "refreshed"
         => \E i \in 1..Len(reads) :
               /\ reads[i].kind = "refresh"
               /\ reads' = RemoveAt(reads, i)
               /\ workoutDays' \in ReadResults(reads[i].user) ]_vars

\* C7: the load effect run for a render without a user issues no read and
\* subscribes no channel, and leaves none active; from then on, while nobody is
\* signed in, no read and no write is issued and no channel is active; a
\* toggle without a user issues no write and changes neither the collection
\* nor the loading flag nor the error.
C7_InertWithoutUser ==
  [][ /\ (last'.op = "effect" /\ user = NoUser)
         => /\ reads' = reads
            /\ Len(subs') = Len(subs)
            /\ Active(subs') = {}
      /\ (user = NoUser /\ ~pending /\ user' = NoUser)
         => /\ Len(reads') <= Len(reads)
            /\ Len(writes') <= Len(writes)
            /\ Active(subs') = {}
      /\ (last'.op = "toggle" /\ user = NoUser)
         => UNCHANGED <<workoutDays, isLoading, error, reads, writes, subs>> ]_vars

C7_Witness ==
  /\ user = NoUser
  /\ ~pending
  /\ last.op = "toggle"
  /\ \E h \in 1..Len(subs) : subs[h].releases = 1
  /\ workoutDays # <<>>
  /\ reads # <<>>

\* C8 as stated: after the initial read settled the loading flag is false,
\* and after it failed the error is set and the collection is empty.
C8_FailedLoadLeavesEmpty ==
  last.op = "loaded"
    => /\ ~isLoading
       /\ ~last.res => (error # NoError /\ workoutDays = <<>>)

\* C8 amended: after the initial read settled the loading flag is false and
\* stays false; when the read failed the error is set and the collection is
\* what it was before (empty only when nothing had filled it).
C8_FailedLoadLeavesUnchanged ==
  [][ /\ ~isLoading => ~isLoading'
      /\ last'.op = "loaded"
         => /\ ~isLoading'
            /\ ~last'.res => (error' = "load" /\ workoutDays' = workoutDays) ]_vars

C8_Witness ==
  /\ last.op = "loaded"
  /\ ~last.res
  /\ error = "load"
  /\ ~isLoading
  /\ workoutDays # <<>>

\* C9: the rollback of a call is applied whatever has happened since, also with
\* a later call on the same date in flight: afterwards the date has no record
\* when the earlier call had seen none, and else every record of the date
\* carries the value the earlier call had seen.  The later call's optimistic
\* value is overwritten or removed (the witness).
C9_StaleRollbackUnguarded ==
  [][ \A i \in 1..Len(writes) :
        ( /\ last'.op = "rollback"
          /\ last'.idx = i
          /\ \E j \in (i + 1)..Len(writes) : writes[j].date = writes[i].date )
        => IF writes[i].existing = NoRecord
           THEN RecordsOf(workoutDays', writes[i].date) = <<>>
           ELSE /\ Len(workoutDays') = Len(workoutDays)
                /\ \A k \in 1..Len(workoutDays') :
                      workoutDays'[k].date = writes[i].date
                        => workoutDays'[k].completed = writes[i].existing.completed ]_vars

C9_Witness ==
  /\ last.op = "rollback"
  /\ last.res
  /\ \E j \in last.idx..Len(writes) :
        /\ writes[j].date = last.date
        /\ ~Shows(workoutDays, last.date, writes[j].completed)

\* C10: no channel is removed twice and at most one is active; the active one
\* is released in the run of the effects that follows a change of the user or
\* of the client, or in the unmount, and in no other step; once the effects
\* have run the active channel is the one of the current user and client, and
\* after the unmount none is active.
C10_SubscriptionReleasedOnce ==
  [][ /\ \A h \in 1..Len(subs') : subs'[h].releases <= 1
      /\ Cardinality(Active(subs')) <= 1
      /\ \A h \in Active(subs) :
            IF last'.op \in {"effect", "unmount"}
            THEN subs'[h].releases = 1
            ELSE h \in Active(subs')
      /\ ~pending'
         => \A h \in Active(subs') :
               /\ phase' = "mounted"
               /\ subs'[h].user = user'
               /\ subs'[h].client = supabase' ]_vars

C10_Witness ==
  /\ phase = "unmounted"
  /\ Len(subs) = 2
  /\ subs[1].releases = 1
  /\ subs[2].releases = 1
  /\ subs[1].user # subs[2].user
  /\ reads # <<>>

\* C11 as stated, for a date whose toggles are the last changes the collection
\* has seen: once the collection holds a record of the date, the next state
\* holds one too.
C11_NeverLocallyDeleted ==
  [][ \A d \in Dates :
        ( /\ run.n >= 1
          /\ run.date = d
          /\ RecordsOf(workoutDays, d) # <<>> )
        => RecordsOf(workoutDays', d) # <<>> ]_vars

\* C11 amended: the records of a date leave the collection only in the rollback
\* of a call that had seen no record of the date, or when a read (the initial
\* one or a re-read) returns and its result replaces the collection; an
\* optimistic update, a write that succeeds, the rollback of a call that had
\* seen a record, and a read that fails remove no date.
C11_RemovedOnlyByRollbackOrRead ==
  [][ \A d \in Dates :
        ( /\ RecordsOf(workoutDays, d) # <<>>
          /\ RecordsOf(workoutDays', d) = <<>> )
        => \/ /\ last'.op = "rollback"
              /\ last'.date = d
              /\ last'.idx \in 1..Len(writes)
              /\ writes[last'.idx].existing = NoRecord
           \/ /\ last'.op \in {"loaded", "refreshed"}
              /\ last'.res ]_vars

C11_Witness ==
  /\ last.op = "rollback"
  /\ RecordsOf(rendered, "d1") # <<>>
  /\ RecordsOf(workoutDays, "d1") = <<>>
  /\ writes # <<>>

\* C12: once the creation of the client has failed, the error is
\* set, the loading flag is clear, and no read and no write is in flight and no
\* channel is subscribed on a real client.
C12_InertAfterInitFailure ==
  supabase = "mock"
    => /\ error # NoError
       /\ ~isLoading
       /\ reads = <<>>
       /\ writes = <<>>
       /\ \A h \in 1..Len(subs) : subs[h].client # "real"

\* C13: when a read fails (the initial one or a re-read), the failure is
\* handled, the error is set and the collection is left as it was; when the
\* load effect runs for a user and a client and the subscription cannot be set
\* up, the error is set.
C13_FailuresCaughtAndReported ==
  [][ /\ (last'.op \in {"loaded", "refreshed", "unhandled"} /\ ~last'.res)
         => /\ last'.op # "unhandled"
            /\ error' # NoError
            /\ workoutDays' = workoutDays
      /\ ( /\ last'.op = "effect"
           /\ user # NoUser
           /\ supabase # NoClient
           /\ Len(subs') = Len(subs) )
         => error' # NoError ]_vars

\* the records of every date but one, in their order
OtherDates(days, date) == SelectSeq(days, LAMBDA day : day.date # date)

\* C14: the optimistic update of a toggle of a date and the rollback of one
\* leave the records of every other date as they were (presence, user_id,
\* completed and order), and leave the loading flag and the error as they were.
C14_ToggleFrame ==
  [][ last'.op \in {"toggle", "rollback"}
        => /\ OtherDates(workoutDays', last'.date) = OtherDates(workoutDays, last'.date)
           /\ isLoading' = isLoading
           /\ error' = error ]_vars

C14_Witness ==
  /\ last.op = "rollback"
  /\ last.date = "d1"
  /\ RecordsOf(workoutDays, "d1") # <<>>
  /\ Len(RecordsOf(workoutDays, "d2")) = 1
  /\ isWorkoutCompleted(workoutDays, "d1") # isWorkoutCompleted(workoutDays, "d2")
  /\ error = "load"

\* C15: every record of the collection carries the user_id of the user signed
\* in now (so the collection is empty while nobody is signed in).
C15_RecordsOfCurrentUser ==
  \A i \in 1..Len(workoutDays) : workoutDays[i].user_id = user
====
